---- MODULE Spec2Model ----
(***************************************************************************)
(* A state-machine model of the PMR dashboard (src/app.py) and of the PMR  *)
(* report generator (src/.ipynb_checkpoints/app-checkpoint.py).            *)
(*                                                                         *)
(* src/app.py is a Streamlit script: every user interaction reruns the     *)
(* whole script top to bottom.  One action of the model is one such rerun. *)
(* The script's sections are modelled as written, in source order; the     *)
(* `else:` of line 342 is read as the else-branch of the `if` of line 335. *)
(*                                                                         *)
(* Numbers are fixed-point: One (= 10000) stands for 1.0, so that 0.59,    *)
(* 0.6, 0.79, 0.8 and x / 100 for the scores used here are all exact.      *)
(* A missing value (NaN / None) is the empty tuple, a present value v is   *)
(* the 1-tuple <<v>>.                                                      *)
(***************************************************************************)
EXTENDS Integers, Sequences, FiniteSets, TLC

VARIABLES
    source,           \* the table behind the chosen data source (the input)
    ran,              \* TRUE once the script has run at least once
    halted,           \* why the last pass stopped early (st.stop), or "none"
    message,          \* the user-visible message of the halt, or ""
    error,            \* the uncaught exception that ended the last pass, or "none"
    stages,           \* the script sections the last pass executed
    quarter, year,    \* the resolved period
    df_score,         \* df["TPR Score"], one entry per row
    df_status,        \* df["TPR Status"], one entry per row
    tpr_options, sector_options, mda_options, proj_options,
    selected_tpr, selected_sector, selected_mda, selected_proj,
    stale,            \* the selectboxes whose stored choice the last pass no longer offered
    table_view,       \* the radio of line 273
    cards_df,         \* filtered_df of lines 204-212, read by the summary cards
    table_df,         \* filtered_df of lines 254-266, read by the drilldown table
    download_df,      \* the rows of the Excel download of lines 400-410
    pdf,              \* the PDF summary written by the last pass
    df_clean,         \* the columns of df that lines 136-141 assign, per row
    card,             \* the text of the two average cards of lines 226-227
    colors,           \* the cell colours of the drilldown table the pass drew
    rdf,              \* report generator: the uploaded table
    mda_df,           \* report generator: the grouped (COFOG, MDA) aggregate
    report,           \* report generator: the sections of the exported PDF
    report_error      \* report generator: the exception that ended the export

appVars == <<source, ran, halted, message, error, stages, quarter, year,
             df_score, df_status, tpr_options, sector_options, mda_options,
             proj_options, selected_tpr, selected_sector, selected_mda,
             selected_proj, stale, table_view, cards_df,
             table_df, download_df, pdf, df_clean, card, colors>>
reportVars == <<rdf, mda_df, report, report_error>>
vars == <<appVars, reportVars>>

(***************************************************************************)
(* Bounds of the model.                                                    *)
(***************************************************************************)
MaxRows == 2

(***************************************************************************)
(* Values.                                                                 *)
(***************************************************************************)
One == 100 * 100
Missing == <<>>
Some(v) == <<v>>
Val(x) == x[1]
isna(x) == x = Missing

All == "All"
NaN == "NaN"
None == "None"

\* A float n / d of a computed figure; d = 0 stands for an infinity.
Rat(n, d) == <<n, d>>

NumCell(v) == [k |-> "num", v |-> v]
TextCell == [k |-> "text", v |-> 0]
BlankCell == [k |-> "blank", v |-> 0]
\* the string "<v>%"
PctCell(v) == [k |-> "pct", v |-> v]

\* pd.to_numeric(cell, errors="coerce"): anything that is no number is missing.
to_numeric(cell) == IF cell.k = "num" THEN Some(cell.v) ELSE Missing

(***************************************************************************)
(* Column names.                                                           *)
(***************************************************************************)
QLabels == <<"Q1", "Q2", "Q3", "Q4">>
YLabels == <<"2024", "2025">>
OutputCol(q) ==
    CASE q = "Q1" -> "Q1 Output Performance"
      [] q = "Q2" -> "Q2 Output Performance"
      [] q = "Q3" -> "Q3 Output Performance"
      [] q = "Q4" -> "Q4 Output Performance"
ApprovedCol(y) ==
    CASE y = "2024" -> "Y2024 Approved Budget"
      [] y = "2025" -> "Y2025 Approved Budget"
BudgetCol(q) ==
    CASE q = "Q1" -> "Q1 Budget Performance"
      [] q = "Q2" -> "Q2 Budget Performance"
      [] q = "Q3" -> "Q3 Budget Performance"
      [] q = "Q4" -> "Q4 Budget Performance"
PlannedCol(q) ==
    CASE q = "Q1" -> "Planned Q1 Perf"
      [] q = "Q2" -> "Planned Q2 Perf"
      [] q = "Q3" -> "Planned Q3 Perf"
      [] q = "Q4" -> "Planned Q4 Perf"
TprCol == "Cummulative TPR Score"
mda_col == "MDA REVISED"
sector_col == "COFOG"
proj_col == "Programme / Project"
targets_col == "Full Year Output Targets for Programme / Project Activities"

Range(s) == {s[i] : i \in DOMAIN s}
\* sorted(xs)[0] for labels ordered as in the sequence `order`
First(order, xs) ==
    order[CHOOSE i \in DOMAIN order :
            /\ order[i] \in xs
            /\ \A j \in DOMAIN order : order[j] \in xs => i <= j]

\* re.findall(r"(Q\d) Output Performance", " ".join(columns))
available_quarters(columns) == {q \in Range(QLabels) : OutputCol(q) \in columns}
\* re.findall(r"Y(\d{4}) Approved Budget", " ".join(columns))
available_years(columns) == {y \in Range(YLabels) : ApprovedCol(y) \in columns}

\* The three data sources of the radio of lines 37-40, and the labels of the
\* preloaded reports (lines 48-53).
DefaultReports == "Explore Default reports"
UploadFile == "Upload Excel File"
SheetsLink == "Enter Google Sheets Link"
DefaultLabels == {"Q4 2024 PMR Report", "Q3 2024 PMR Report",
                  "Q2 2024 PMR Report", "Q1 2024 PMR Report"}

\* re.search(r"Q(\d)\s*(\d{4})", selected_label): the period a label names
LabelMatch(label) ==
    CASE label = "Q4 2024 PMR Report" -> Some(<<"Q4", "2024">>)
      [] label = "Q3 2024 PMR Report" -> Some(<<"Q3", "2024">>)
      [] label = "Q2 2024 PMR Report" -> Some(<<"Q2", "2024">>)
      [] label = "Q1 2024 PMR Report" -> Some(<<"Q1", "2024">>)
      [] OTHER -> Missing

\* lines 105-121: the first available quarter and year, replaced by those of
\* the label when the source option is "Use GitHub default" (line 110), a
\* string that is none of the options of the radio.
InferredPeriod(src) ==
    LET quarters == available_quarters(src.columns)
        years == available_years(src.columns)
        match == IF src.option = "Use GitHub default"
                 THEN LabelMatch(src.label) ELSE Missing
    IN [quarter |-> IF ~isna(match) /\ Val(match)[1] \in quarters
                    THEN Val(match)[1] ELSE First(QLabels, quarters),
        year |-> IF ~isna(match) /\ Val(match)[2] \in years
                 THEN Val(match)[2] ELSE First(YLabels, years)]

(***************************************************************************)
(* Why a pass halts before the filters, and what it tells the user.        *)
(***************************************************************************)
\* HaltReason without the check for the tracking-score column.
HaltReason_no_tpr_check(src) ==
    IF ~src.readable THEN "load_failed"
    ELSE IF available_quarters(src.columns) = {} THEN "no_quarter"
    ELSE IF available_years(src.columns) = {} THEN "no_year"
    ELSE "none"

HaltReason(src) ==
    IF ~src.readable THEN "load_failed"
    ELSE IF available_quarters(src.columns) = {} THEN "no_quarter"
    ELSE IF available_years(src.columns) = {} THEN "no_year"
    ELSE IF TprCol \notin src.columns THEN "no_tpr"
    ELSE "none"

HaltMessage(reason) ==
    CASE reason = "load_failed" -> "Failed to load default sheet"
      [] reason = "no_quarter" -> "No quarter detected"
      [] reason = "no_year" -> "No year detected"
      [] reason = "no_tpr" -> "Column 'Cummulative TPR Score' not found in uploaded data."
      [] OTHER -> ""

\* The sections a pass has executed when it halts for `reason`.
StagesBefore(reason) ==
    CASE reason = "load_failed" -> {"load"}
      [] reason = "no_quarter" -> {"load", "detect"}
      [] reason = "no_year" -> {"load", "detect"}
      [] reason = "no_tpr" -> {"load", "detect", "mapping", "clean"}
      [] OTHER -> {"load", "detect", "mapping", "clean", "classify"}

(***************************************************************************)
(* The clean section (lines 136-141).  Five columns are assigned from      *)
(* pd.to_numeric(df.get(col), errors="coerce"): a cell that is no number   *)
(* is NaN, and so is every cell of a column the table does not have        *)
(* (to_numeric(None) is NaN).  The planned column is assigned from         *)
(* .astype(str).str.replace("%", "").astype(float): "50%" is 50.0, a blank *)
(* cell is "nan" and then NaN, and float() raises ValueError for any other *)
(* string, "None" among them, which is every cell of the default series of *)
(* a table without the column.                                             *)
(***************************************************************************)
Coerce(columns, col, cell) ==
    IF col \in columns THEN to_numeric(cell) ELSE Missing

planned_float(cell) ==
    CASE cell.k = "num" -> Some(cell.v)
      [] cell.k = "pct" -> Some(cell.v)
      [] OTHER -> Missing

PlannedRaises(src, q) ==
    IF PlannedCol(q) \in src.columns
    THEN \E i \in DOMAIN src.rows : src.rows[i].planned.k = "text"
    ELSE src.rows # <<>>

CleanError == "ValueError: could not convert string to float"

Clean(src, q) ==
    [error |-> IF PlannedRaises(src, q) THEN CleanError ELSE "none",
     cells |-> [i \in DOMAIN src.rows |->
                  [output |-> Coerce(src.columns, OutputCol(q), src.rows[i].output),
                   budget |-> Coerce(src.columns, BudgetCol(q), src.rows[i].budget),
                   planned |-> planned_float(src.rows[i].planned)]]]

(***************************************************************************)
(* TPR score and status.                                                   *)
(***************************************************************************)
OnTrackMin == 8000
AtRiskMin == 6000

\* raw.max(): the maximum of the non-missing values, missing if there is none
SeriesMax(s) ==
    LET vals == {Val(s[i]) : i \in {j \in DOMAIN s : ~isna(s[j])}}
    IN IF vals = {} THEN Missing
       ELSE Some(CHOOSE m \in vals : \A x \in vals : x <= m)

\* raw if raw.max() <= 1 else raw / 100   (NaN <= 1 is False)
ScaleTpr(raw) ==
    LET mx == SeriesMax(raw)
    IN IF ~isna(mx) /\ Val(mx) <= One THEN raw
       ELSE [i \in DOMAIN raw |->
               IF isna(raw[i]) THEN Missing ELSE Some(Val(raw[i]) \div 100)]

RawTpr(rows) == [i \in DOMAIN rows |-> to_numeric(rows[i].tpr)]

\* df["TPR Score"] as the filters and the table see it: line 146 assigns the
\* scaled series, line 163 assigns the column again from the raw one.
TprScore(rows) ==
    LET line146 == ScaleTpr(RawTpr(rows))
        line163 == RawTpr(rows)
    IN line163

\* tpr_category with `>` for `>=` at the On Track threshold.
tpr_category_strict(score) ==
    IF isna(score) THEN None
    ELSE IF Val(score) > OnTrackMin THEN "On Track"
    ELSE IF Val(score) >= AtRiskMin THEN "At Risk"
    ELSE "Off Track"

tpr_category(score) ==
    IF isna(score) THEN None
    ELSE IF Val(score) >= OnTrackMin THEN "On Track"
    ELSE IF Val(score) >= AtRiskMin THEN "At Risk"
    ELSE "Off Track"

TprStatus(score) == [i \in DOMAIN score |-> tpr_category(score[i])]

\* df once lines 143-164 have added its two derived columns.
Classify(src) ==
    [columns |-> src.columns, rows |-> src.rows,
     score |-> TprScore(src.rows),
     status |-> TprStatus(TprScore(src.rows))]

(***************************************************************************)
(* Widgets.  A Streamlit widget keeps the user's choice across reruns for  *)
(* as long as its identity is the same.  The identity of a selectbox is    *)
(* computed from its parameters, the option list among them: a selectbox   *)
(* offered a different option list is a new widget and returns its default *)
(* option, the first one ("All").  For a selectbox given a key, newer      *)
(* Streamlit builds take the key alone as the identity and keep the stored *)
(* choice when it is still among the options; older builds reset it.  Both *)
(* outcomes are allowed (`keep`).  sorted(...) makes the option list a     *)
(* function of the option set, so option lists are modelled as sets.       *)
(***************************************************************************)
Widget(options, value) == [options |-> options, value |-> value]

selectbox(state, options, keyed, keep) ==
    IF state.options = options THEN state.value
    ELSE IF keyed /\ keep /\ state.value \in options THEN state.value
    ELSE All

\* ["All"] + sorted(series.dropna().unique().tolist())
Options(rows, subset, field) ==
    {All} \cup {rows[i][field] : i \in {j \in subset : rows[j][field] # NaN}}

\* lines 180-183
mda_subset(rows, sector) ==
    IF sector # All THEN {i \in DOMAIN rows : rows[i].COFOG = sector}
    ELSE DOMAIN rows

\* MdaOptions read from the whole table instead of the sector's rows.
MdaOptions_all_rows(df, sector) ==
    IF mda_col \in df.columns
    THEN Options(df.rows, DOMAIN df.rows, "MDA")
    ELSE {All}

\* lines 185-188
MdaOptions(df, sector) ==
    IF mda_col \in df.columns
    THEN Options(df.rows, mda_subset(df.rows, sector), "MDA")
    ELSE {All}

\* lines 195-198
proj_subset(rows, sector, mda) ==
    IF mda # All THEN {i \in mda_subset(rows, sector) : rows[i].MDA = mda}
    ELSE mda_subset(rows, sector)

\* line 200
ProjOptions(df, sector, mda) ==
    Options(df.rows, proj_subset(df.rows, sector, mda), "Programme")

\* Filters with the agency and the programme read from the stored choice
\* instead of from what the selectbox returns.
Filters_stored_choice(df, w, keep) ==
    LET rows == df.rows
        status == df.status
        tprOpts == {All} \cup {status[i] : i \in {j \in DOMAIN rows : status[j] # None}}
        tpr == selectbox(w.tpr, tprOpts, FALSE, keep)
        sectorOpts == Options(rows, DOMAIN rows, "COFOG")
        sector == selectbox(w.sector, sectorOpts, FALSE, keep)
        mdaOpts == MdaOptions(df, sector)
        mda == w.mda.value
        projOpts == ProjOptions(df, sector, mda)
        proj == w.proj.value
    IN [tpr_options |-> tprOpts, selected_tpr |-> tpr,
        sector_options |-> sectorOpts, selected_sector |-> sector,
        mda_options |-> mdaOpts, selected_mda |-> mda,
        proj_options |-> projOpts, selected_proj |-> proj,
        stale |-> (IF w.mda.value \notin mdaOpts THEN {"mda"} ELSE {})
                  \cup (IF w.proj.value \notin projOpts THEN {"proj"} ELSE {})]

\* lines 172-201: the four selectboxes, in source order.  `w` is what the
\* browser holds for each widget when the rerun starts.
Filters(df, w, keep) ==
    LET rows == df.rows
        status == df.status
        tprOpts == {All} \cup {status[i] : i \in {j \in DOMAIN rows : status[j] # None}}
        tpr == selectbox(w.tpr, tprOpts, FALSE, keep)
        sectorOpts == Options(rows, DOMAIN rows, "COFOG")
        sector == selectbox(w.sector, sectorOpts, FALSE, keep)
        mdaOpts == MdaOptions(df, sector)
        mda == selectbox(w.mda, mdaOpts, TRUE, keep)
        projOpts == ProjOptions(df, sector, mda)
        proj == selectbox(w.proj, projOpts, FALSE, keep)
    IN [tpr_options |-> tprOpts, selected_tpr |-> tpr,
        sector_options |-> sectorOpts, selected_sector |-> sector,
        mda_options |-> mdaOpts, selected_mda |-> mda,
        proj_options |-> projOpts, selected_proj |-> proj,
        stale |-> (IF w.mda.value \notin mdaOpts THEN {"mda"} ELSE {})
                  \cup (IF w.proj.value \notin projOpts THEN {"proj"} ELSE {})]

(***************************************************************************)
(* The two "apply filters" sections.  A view is the set of the row indices *)
(* it keeps (boolean indexing keeps the order of the rows).                *)
(***************************************************************************)
\* lines 204-212: the sector constraint reads the column "Sector"
ApplyFilters1(df, f) ==
    LET rows == df.rows
        status == df.status
        s0 == DOMAIN rows
        s1 == IF f.selected_tpr # All
              THEN {i \in s0 : status[i] = f.selected_tpr} ELSE s0
        s2 == IF f.selected_sector # All
              THEN {i \in s1 : rows[i].Sector = f.selected_sector} ELSE s1
        s3 == IF f.selected_mda # All
              THEN {i \in s2 : rows[i].MDA = f.selected_mda} ELSE s2
        s4 == IF f.selected_proj # All
              THEN {i \in s3 : rows[i].Programme = f.selected_proj} ELSE s3
    IN IF f.selected_sector # All /\ "Sector" \notin df.columns
       THEN [error |-> "KeyError: 'Sector'", view |-> Missing]
       ELSE [error |-> "none", view |-> Some(s4)]

\* lines 254-266: the sector constraint reads the column "COFOG"; the
\* programme constraint reads the name selected_project, bound nowhere
ApplyFilters2(df, f) ==
    LET rows == df.rows
        status == df.status
        s0 == DOMAIN rows
        s1 == IF f.selected_tpr # All
              THEN {i \in s0 : status[i] = f.selected_tpr} ELSE s0
        s2 == IF f.selected_sector # All
              THEN {i \in s1 : rows[i].COFOG = f.selected_sector} ELSE s1
        s3 == IF f.selected_mda # All
              THEN {i \in s2 : rows[i].MDA = f.selected_mda} ELSE s2
    IN IF f.selected_proj # All
       THEN [error |-> "NameError: selected_project", view |-> Missing]
       ELSE [error |-> "none", view |-> Some(s3)]

\* Series.sum(): missing cells are skipped, the sum of none is 0.
RECURSIVE SumCells(_, _, _)
SumCells(rows, idx, field) ==
    IF idx = {} THEN 0
    ELSE LET i == CHOOSE j \in idx : TRUE
             cell == rows[i][field]
         IN (IF isna(cell) THEN 0 ELSE Val(cell))
            + SumCells(rows, idx \ {i}, field)

\* Series.mean(skipna=True): the mean of the present values, NaN if none
Mean(cells, idx, field) ==
    LET present == {i \in idx : ~isna(cells[i][field])}
    IN IF present = {} THEN Missing
       ELSE Some(Rat(SumCells(cells, present, field), Cardinality(present)))

\* f"{x:.2%}": the figure as a percentage, and "nan%" for NaN
FormatPercent(x) ==
    [text |-> IF isna(x) THEN "nan%" ELSE "%", of |-> x]

\* lines 216-227: the summary cards read filtered_df of lines 204-212
SummaryCards(df, cells, view) ==
    IF targets_col \notin df.columns
    THEN [error |-> "KeyError: targets", view |-> Missing, card |-> Missing]
    ELSE [error |-> "none", view |-> view,
          card |-> Some([output |-> FormatPercent(Mean(cells, Val(view), "output")),
                         budget |-> FormatPercent(Mean(cells, Val(view), "budget"))])]

(***************************************************************************)
(* The drilldown table.  The Styled View colours a cell from its number    *)
(* (lines 308-318); the AgGrid view first formats the number as a text     *)
(* (lines 348-351: "" for a missing one, the percentage rounded to a whole *)
(* number otherwise) and colours the cell from the digits of that text     *)
(* (lines 362-382).  The tracking-score column of the table is the raw     *)
(* column "Cummulative TPR Score": a cell of it that is a string fails the *)
(* comparison of line 316 and the format of line 351.                      *)
(***************************************************************************)
PerfGreen == 7000
PerfAmber == 5000
TprGreen == 8000
TprAmber == 6000

highlight(val, green, amber) ==
    IF isna(val) THEN ""
    ELSE IF Val(val) >= green THEN "green"
    ELSE IF Val(val) >= amber THEN "amber"
    ELSE "red"
highlight_perf(val) == highlight(val, PerfGreen, PerfAmber)
highlight_tpr(val) == highlight(val, TprGreen, TprAmber)

Abs(n) == IF n < 0 THEN 0 - n ELSE n
\* f"{x:.0%}" if pd.notna(x) else "": the whole number before the "%"
format_percent0(x) ==
    IF isna(x) THEN Missing ELSE Some((2 * 100 * Val(x) + One) \div (2 * One))
\* parseFloat(params.value?.replace(/[^0-9.]/g, '')): NaN for ""
parse_digits(text) == IF isna(text) THEN Missing ELSE Some(Abs(Val(text)))
\* a comparison with NaN is false: the last return colours the cell red
cell_style(text, green, amber) ==
    LET val == parse_digits(text)
    IN IF ~isna(val) /\ Val(val) >= green THEN "green"
       ELSE IF ~isna(val) /\ Val(val) >= amber THEN "amber"
       ELSE "red"
perf_style(text) == cell_style(text, 70, 50)
tpr_style(text) == cell_style(text, 80, 60)

\* lines 335-398
RenderTable(src, cells, view, tableView) ==
    LET rows == src.rows
        idx == Val(view)
    IN IF \E i \in idx : rows[i].tpr.k = "text"
       THEN [error |-> IF tableView = "Styled View"
                       THEN "TypeError: '>=' not supported between 'str' and 'float'"
                       ELSE "ValueError: Unknown format code '%' for 'str'",
             colors |-> Missing]
       ELSE [error |-> "none",
             colors |->
               Some([i \in idx |->
                  IF tableView = "Styled View"
                  THEN [output |-> highlight_perf(cells[i].output),
                        budget |-> highlight_perf(cells[i].budget),
                        tpr |-> highlight_tpr(to_numeric(rows[i].tpr))]
                  ELSE [output |-> perf_style(format_percent0(cells[i].output)),
                        budget |-> perf_style(format_percent0(cells[i].budget)),
                        tpr |-> tpr_style(format_percent0(to_numeric(rows[i].tpr)))]])]

\* lines 400-410: the Excel download exists in the AgGrid branch only
Download(view, tableView) ==
    IF tableView = "AgGrid Interactive" THEN view ELSE Missing

\* lines 495-566: the PDF summary.  Its figures are the variables the summary
\* cards computed (lines 216-222), formatted again by lines 508-509; its
\* filter lines are those of 551-555.
PdfSummary(q, y, f, cards, kpi) ==
    Some([title |-> <<q, y>>,
          figures_from |-> cards,
          output |-> Val(kpi).output,
          budget |-> Val(kpi).budget,
          lines |-> (IF f.selected_sector # All
                     THEN {<<"Sector", f.selected_sector>>} ELSE {})
                    \cup
                    (IF f.selected_mda # All
                     THEN {<<"MDA", f.selected_mda>>} ELSE {})])

(***************************************************************************)
(* One pass of the script (src/app.py top to bottom).  st.stop() ends the  *)
(* pass (halted), an uncaught exception ends it too (error); the widgets   *)
(* rendered before either stay on screen.  `df` is the table with its      *)
(* derived columns and `f` the outcome of the filter section, each         *)
(* computed once by the rerun and read here only by a pass that gets       *)
(* there.  An exception of line 140 ends the pass before the check for the *)
(* tracking-score column (lines 144-149) is reached.                       *)
(***************************************************************************)
NoFilters ==
    [tpr_options |-> {}, selected_tpr |-> All,
     sector_options |-> {}, selected_sector |-> All,
     mda_options |-> {}, selected_mda |-> All,
     proj_options |-> {}, selected_proj |-> All, stale |-> {}]

Script(src, df, f, view, click) ==
    LET reason == HaltReason(src)
        q == InferredPeriod(src).quarter
        y == InferredPeriod(src).year
        cl == Clean(src, q)
        a1 == ApplyFilters1(df, f)
        cards == SummaryCards(df, cl.cells, a1.view)
        a2 == ApplyFilters2(df, f)
        table == RenderTable(src, cl.cells, a2.view, view)
        stopped ==
            [halted |-> reason, message |-> HaltMessage(reason),
             error |-> "none", stages |-> StagesBefore(reason),
             quarter |-> None, year |-> None,
             df_score |-> <<>>, df_status |-> <<>>, f |-> NoFilters,
             cards_df |-> Missing, table_df |-> Missing,
             download_df |-> Missing, pdf |-> Missing,
             df_clean |-> <<>>, card |-> Missing, colors |-> Missing]
        raised ==
            [stopped EXCEPT !.halted = "none", !.message = "",
                            !.error = cl.error,
                            !.stages = {"load", "detect", "mapping", "clean"},
                            !.quarter = q, !.year = y]
        cleaned ==
            [stopped EXCEPT !.quarter = q, !.year = y, !.df_clean = cl.cells]
        loaded ==
            [cleaned EXCEPT !.df_score = df.score,
                            !.df_status = df.status,
                            !.f = f,
                            !.stages = @ \cup {"filters", "apply_filters_1"}]
        shown ==
            [loaded EXCEPT !.cards_df = cards.view,
                           !.card = cards.card,
                           !.stages = @ \cup {"cards", "donuts", "apply_filters_2"}]
        complete ==
            [shown EXCEPT !.table_df = a2.view,
                          !.download_df = Download(a2.view, view),
                          !.colors = table.colors,
                          !.pdf = IF click
                                  THEN PdfSummary(q, y, f, cards.view, cards.card)
                                  ELSE Missing,
                          !.stages = @ \cup {"table", "pdf_button"}
                                       \cup (IF view = "AgGrid Interactive"
                                             THEN {"download"} ELSE {})
                                       \cup (IF click THEN {"pdf"} ELSE {})]
    IN IF reason \in {"load_failed", "no_quarter", "no_year"} THEN stopped
       ELSE IF cl.error # "none" THEN raised
       ELSE IF reason = "no_tpr" THEN cleaned
       ELSE IF a1.error # "none" THEN [loaded EXCEPT !.error = a1.error]
       ELSE IF cards.error # "none"
            THEN [loaded EXCEPT !.error = cards.error, !.stages = @ \cup {"cards"}]
       ELSE IF a2.error # "none" THEN [shown EXCEPT !.error = a2.error]
       ELSE IF table.error # "none"
            THEN [shown EXCEPT !.error = table.error, !.stages = @ \cup {"table"}]
       ELSE complete

(***************************************************************************)
(* The tables the model loads.                                             *)
(***************************************************************************)
SectorNames == {"S1", "S2"}
MdaNames == {"A1", "A2"}
ProgNames == {"P1", "P2"}

\* A row: its output-performance and budget-performance cells are blank and
\* its planned-performance cell is the number 50 unless said otherwise.
Row(cofog, sector, mda, prog, tpr) ==
    [COFOG |-> cofog, Sector |-> sector, MDA |-> mda, Programme |-> prog,
     tpr |-> tpr, output |-> BlankCell, budget |-> BlankCell,
     planned |-> NumCell(50)]

RowSeqs(S) == UNION {[1..n -> S] : n \in 0..MaxRows}

BaseColumns == {sector_col, mda_col, proj_col, PlannedCol("Q2")}
FullColumns ==
    BaseColumns \cup {OutputCol("Q1"), ApprovedCol("2025"), TprCol, targets_col,
                      PlannedCol("Q1")}
OptionalColumns ==
    {OutputCol("Q1"), OutputCol("Q2"), ApprovedCol("2024"), ApprovedCol("2025"),
     TprCol, targets_col, PlannedCol("Q1")}

\* An uploaded table.
Table(readable, columns, rows) ==
    [readable |-> readable, columns |-> columns, rows |-> rows,
     option |-> UploadFile, label |-> ""]
\* The table behind a preloaded report.
DefaultReport(label, table) ==
    [table EXCEPT !.option = DefaultReports, !.label = label]

\* Tables that differ in the columns they have.
SchemaTables ==
    {Table(FALSE, {}, <<>>)}
    \cup {Table(TRUE, BaseColumns \cup cs,
                <<Row("S1", NaN, "A1", "P1",
                      IF TprCol \in cs THEN NumCell(8500) ELSE BlankCell)>>)
          : cs \in SUBSET OptionalColumns}

\* Tables that differ in the cells of the tracking-score column.
ScoreCells ==
    {NumCell(v) : v \in {0, 5500, 5900, 6000, 7900, 8000, 10000, 550000, 850000}}
    \cup {TextCell, BlankCell}
ScoreTables ==
    {Table(TRUE, FullColumns, rows)
     : rows \in RowSeqs({Row("S1", NaN, "A1", "P1", c) : c \in ScoreCells})}

\* Tables that differ in the sector, agency, programme and status of their
\* rows, and in the column "Sector": absent, a copy of COFOG, or another
\* assignment of the same names.
OtherSector(c) == IF c = "S1" THEN "S2" ELSE "S1"
SectorCell(kind, c) ==
    CASE kind = "absent" -> NaN
      [] kind = "copy" -> c
      [] kind = "other" -> OtherSector(c)
\* The score of the i-th row: rows alternate between On Track and Off Track.
FilterScore(i) == NumCell(IF i % 2 = 1 THEN 8500 ELSE 5500)
Keys(sectors, mdas, progs) ==
    {[c |-> c, m |-> m, p |-> p] : c \in sectors, m \in mdas, p \in progs}
FilterTable(kind, keys) ==
    Table(TRUE,
          FullColumns \cup (IF kind = "absent" THEN {} ELSE {"Sector"}),
          [i \in DOMAIN keys |->
             Row(keys[i].c, SectorCell(kind, keys[i].c), keys[i].m, keys[i].p,
                 FilterScore(i))])
FilterTables ==
    {FilterTable(kind, keys)
     : kind \in {"absent", "copy", "other"},
       keys \in RowSeqs(Keys(SectorNames, MdaNames, ProgNames))}

\* Tables with empty cells in the sector, agency and programme columns.
NullTables ==
    {FilterTable("absent", keys)
     : keys \in RowSeqs(Keys({"S1", NaN}, {"A1", NaN}, {"P1", NaN}))}

\* Preloaded reports that differ in the period their label names and in the
\* quarters and years their columns name.
PeriodColumns ==
    {OutputCol("Q1"), OutputCol("Q2"), ApprovedCol("2024"), ApprovedCol("2025")}
DefaultTables ==
    {DefaultReport(label,
        Table(TRUE, (FullColumns \ PeriodColumns) \cup cs,
              <<Row("S1", NaN, "A1", "P1", NumCell(8500))>>))
     : label \in {"Q2 2024 PMR Report", "Q1 2024 PMR Report"},
       cs \in SUBSET PeriodColumns}

Tables ==
    SchemaTables \cup ScoreTables \cup FilterTables \cup NullTables
    \cup DefaultTables

\* Tables that differ in the cells of the output-performance, the
\* budget-performance and the planned-performance columns: blank cells,
\* stray text, percent strings and numbers (0.3, 0.696 and 0.9 of 1).
OutputCells ==
    {BlankCell, TextCell, PctCell(60), NumCell(3000), NumCell(6960), NumCell(9000)}
BudgetCells == {BlankCell, NumCell(5000)}
PlannedCells == {BlankCell, TextCell, PctCell(50), NumCell(50)}
DataRow(output, budget, planned) ==
    [Row("S1", "S1", "A1", "P1", NumCell(8500))
       EXCEPT !.output = output, !.budget = budget, !.planned = planned]
DataColumns == FullColumns \cup {"Sector", BudgetCol("Q1")}
PerfTables ==
    {Table(TRUE, DataColumns, rows)
     : rows \in RowSeqs({DataRow(o, b, NumCell(50))
                         : o \in OutputCells, b \in BudgetCells})}
\* One-row tables that differ in the planned cell, and in having the planned
\* and the budget-performance column at all.
CleanTables ==
    {Table(TRUE, DataColumns \ absent, <<DataRow(o, NumCell(5000), p)>>)
     : absent \in SUBSET {PlannedCol("Q1"), BudgetCol("Q1")},
       o \in {TextCell, NumCell(9000)}, p \in PlannedCells}
    \cup {Table(TRUE, DataColumns \ {PlannedCol("Q1")}, <<>>)}
DataTables == PerfTables \cup CleanTables

(***************************************************************************)
(* The dashboard: state after the page is opened, and one action per user  *)
(* interaction, each a whole rerun of the script.                          *)
(***************************************************************************)
AppStart(tables) ==
    /\ source \in tables
    /\ ran = FALSE
    /\ halted = "none"
    /\ message = ""
    /\ error = "none"
    /\ stages = {}
    /\ quarter = None
    /\ year = None
    /\ df_score = <<>>
    /\ df_status = <<>>
    /\ tpr_options = {}
    /\ sector_options = {}
    /\ mda_options = {}
    /\ proj_options = {}
    /\ selected_tpr = All
    /\ selected_sector = All
    /\ selected_mda = All
    /\ selected_proj = All
    /\ stale = {}
    /\ table_view = "Styled View"
    /\ cards_df = Missing
    /\ table_df = Missing
    /\ download_df = Missing
    /\ pdf = Missing
    /\ df_clean = <<>>
    /\ card = Missing
    /\ colors = Missing

\* What the browser holds for the four selectboxes.
Browser ==
    [tpr |-> Widget(tpr_options, selected_tpr),
     sector |-> Widget(sector_options, selected_sector),
     mda |-> Widget(mda_options, selected_mda),
     proj |-> Widget(proj_options, selected_proj)]

Rerun(w, view, click) ==
    \E df \in {Classify(source)} :
    \E f \in {Filters(df, w, keep) : keep \in BOOLEAN} :
        \E r \in {Script(source, df, f, view, click)} :
           /\ ran' = TRUE
           /\ halted' = r.halted
           /\ message' = r.message
           /\ error' = r.error
           /\ stages' = r.stages
           /\ quarter' = r.quarter
           /\ year' = r.year
           /\ df_score' = r.df_score
           /\ df_status' = r.df_status
           /\ tpr_options' = r.f.tpr_options
           /\ sector_options' = r.f.sector_options
           /\ mda_options' = r.f.mda_options
           /\ proj_options' = r.f.proj_options
           /\ selected_tpr' = r.f.selected_tpr
           /\ selected_sector' = r.f.selected_sector
           /\ selected_mda' = r.f.selected_mda
           /\ selected_proj' = r.f.selected_proj
           /\ stale' = r.f.stale
           /\ table_view' = view
           /\ cards_df' = r.cards_df
           /\ table_df' = r.table_df
           /\ download_df' = r.download_df
           /\ pdf' = r.pdf
           /\ df_clean' = r.df_clean
           /\ card' = r.card
           /\ colors' = r.colors
           /\ UNCHANGED <<source, reportVars>>

\* The page is opened: the first run of the script.
FirstRun ==
    /\ ~ran
    /\ Rerun(Browser, table_view, FALSE)

\* The user picks another option of a selectbox that is on screen.
SelectTpr ==
    /\ ran
    /\ \E v \in tpr_options \ {selected_tpr} :
           Rerun([Browser EXCEPT !.tpr.value = v], table_view, FALSE)

SelectSector ==
    /\ ran
    /\ \E v \in sector_options \ {selected_sector} :
           Rerun([Browser EXCEPT !.sector.value = v], table_view, FALSE)

SelectMda ==
    /\ ran
    /\ \E v \in mda_options \ {selected_mda} :
           Rerun([Browser EXCEPT !.mda.value = v], table_view, FALSE)

SelectProj ==
    /\ ran
    /\ \E v \in proj_options \ {selected_proj} :
           Rerun([Browser EXCEPT !.proj.value = v], table_view, FALSE)

\* The user switches the table view (the radio of line 273, on screen only
\* when the pass got that far).
SelectView ==
    /\ "table" \in stages
    /\ \E v \in {"Styled View", "AgGrid Interactive"} \ {table_view} :
           Rerun(Browser, v, FALSE)

\* The user presses "Download PDF Summary" (line 495).
ClickPdfSummary ==
    /\ "pdf_button" \in stages
    /\ Rerun(Browser, table_view, TRUE)

AppNext ==
    \/ FirstRun
    \/ SelectTpr
    \/ SelectSector
    \/ SelectMda
    \/ SelectProj
    \/ SelectView
    \/ ClickPdfSummary

\* The report generator before any upload.
ReportStart ==
    /\ rdf = Missing
    /\ mda_df = <<>>
    /\ report = Missing
    /\ report_error = "none"

Init ==
    /\ AppStart(Tables)
    /\ ReportStart

Next == AppNext

Spec == Init /\ [][Next]_vars

\* The dashboard over the tables that differ in their performance cells.
InitData ==
    /\ AppStart(DataTables)
    /\ ReportStart

SpecData == InitData /\ [][Next]_vars

(***************************************************************************)
(* Properties of the dashboard.                                            *)
(***************************************************************************)
\* The last pass loaded the table and reached the filters.
Loaded == ran /\ halted = "none" /\ "classify" \in stages

Rows == source.rows

\* C1: after a successful load the derived tracking score is scaled once for
\* the whole column: equal to the raw score when no non-missing raw score
\* exceeds 1, and to the raw score divided by 100 otherwise.
C1_ScoreScaledOncePerColumn ==
    Loaded =>
        LET raw == RawTpr(Rows)
            fractions == \A i \in DOMAIN raw : isna(raw[i]) \/ Val(raw[i]) <= One
        IN \A i \in DOMAIN raw :
              df_score[i] = IF isna(raw[i]) THEN Missing
                            ELSE IF fractions THEN raw[i]
                            ELSE Some(Val(raw[i]) \div 100)

\* The raw scores are on the 0-100 scale: all within [0, 100], one above 1.
PercentScale(raw) ==
    /\ \A i \in DOMAIN raw :
          isna(raw[i]) \/ (0 <= Val(raw[i]) /\ Val(raw[i]) <= 100 * One)
    /\ \E i \in DOMAIN raw : ~isna(raw[i]) /\ Val(raw[i]) > One

\* C2: when the raw scores are on the 0-100 scale, the status of each record
\* is the class of its raw score divided by 100 (85 is On Track, 55 is Off
\* Track).
C2_StatusOfScaledScore ==
    (Loaded /\ PercentScale(RawTpr(Rows))) =>
        \A i \in DOMAIN Rows :
            LET raw == RawTpr(Rows)[i]
            IN df_status[i] = IF isna(raw) THEN None
                              ELSE IF Val(raw) \div 100 >= (8 * One) \div 10
                                   THEN "On Track"
                              ELSE IF Val(raw) \div 100 >= (6 * One) \div 10
                                   THEN "At Risk"
                              ELSE "Off Track"

\* C3: the status of a record is decided by its score alone: On Track from
\* 0.8 up, At Risk from 0.6 up to 0.8, Off Track below 0.6, and no status for
\* a missing score, which is no category of the status filter either.
C3_StatusByThresholds ==
    Loaded =>
        /\ None \notin tpr_options
        /\ \A i \in DOMAIN df_score :
              LET s == df_score[i]
                  t == df_status[i]
              IN /\ (t = None) <=> isna(s)
                 /\ (t = "On Track") <=>
                        (~isna(s) /\ Val(s) >= (8 * One) \div 10)
                 /\ (t = "At Risk") <=>
                        (~isna(s) /\ Val(s) >= (6 * One) \div 10
                                  /\ Val(s) < (8 * One) \div 10)
                 /\ (t = "Off Track") <=>
                        (~isna(s) /\ Val(s) < (6 * One) \div 10)

\* A table with 0.8 next to 0.79, or 0.6 next to 0.59, classified.
C3_Witness ==
    /\ Loaded
    /\ \E i, j \in DOMAIN df_score :
          \/ /\ df_score[i] = Some(8000) /\ df_status[i] = "On Track"
             /\ df_score[j] = Some(7900) /\ df_status[j] = "At Risk"
          \/ /\ df_score[i] = Some(6000) /\ df_status[i] = "At Risk"
             /\ df_score[j] = Some(5900) /\ df_status[j] = "Off Track"

\* A required discriminator is absent from the loaded table.
MissingDiscriminator ==
    /\ source.readable
    /\ \/ \A q \in Range(QLabels) : OutputCol(q) \notin source.columns
       \/ \A y \in Range(YLabels) : ApprovedCol(y) \notin source.columns
       \/ TprCol \notin source.columns

LaterStages ==
    {"filters", "apply_filters_1", "cards", "donuts", "apply_filters_2",
     "table", "download", "pdf_button", "pdf"}

Satisfies(i) ==
    /\ selected_tpr = All \/ df_status[i] = selected_tpr
    /\ selected_sector = All \/ Rows[i].COFOG = selected_sector
    /\ selected_mda = All \/ Rows[i].MDA = selected_mda
    /\ selected_proj = All \/ Rows[i].Programme = selected_proj

\* C5: for every filter selection, the filtered view is the set of the
\* records that satisfy every constraint not set to "All".
C5_ViewIsConjunction ==
    (Loaded /\ targets_col \in source.columns) =>
        /\ cards_df = Some({i \in DOMAIN Rows : Satisfies(i)})
        /\ table_df = Some({i \in DOMAIN Rows : Satisfies(i)})

UnderSector(i) == selected_sector = All \/ Rows[i].COFOG = selected_sector
UnderMda(i) == selected_mda = All \/ Rows[i].MDA = selected_mda

\* C6: every agency offered (but "All") has a record under the selected
\* sector, and every programme offered (but "All") has a record under the
\* selected sector and agency.
C6_OfferedChoicesHaveRecords ==
    /\ \A a \in mda_options \ {All} :
          \E i \in DOMAIN Rows : Rows[i].MDA = a /\ UnderSector(i)
    /\ \A p \in proj_options \ {All} :
          \E i \in DOMAIN Rows :
              Rows[i].Programme = p /\ UnderSector(i) /\ UnderMda(i)

\* A sector and an agency are selected, and both restrictions bite: an
\* agency and a programme of the table are not offered.
C6_Witness ==
    /\ selected_sector # All
    /\ selected_mda # All
    /\ \E i \in DOMAIN Rows : Rows[i].MDA \notin mda_options
    /\ \E i \in DOMAIN Rows : Rows[i].Programme \notin proj_options
    /\ proj_options # {All}

C8_SameRecordSet ==
    /\ (cards_df # Missing /\ table_df # Missing) => cards_df = table_df
    /\ (pdf # Missing /\ table_df # Missing) => Val(pdf).figures_from = table_df
    /\ (download_df # Missing) => download_df = table_df

\* C9: the PDF summary records every filter whose selection is not "All".
C9_PdfRecordsEveryFilter ==
    pdf # Missing =>
        /\ selected_tpr # All => <<"TPR Status", selected_tpr>> \in Val(pdf).lines
        /\ selected_sector # All => <<"Sector", selected_sector>> \in Val(pdf).lines
        /\ selected_mda # All => <<"MDA", selected_mda>> \in Val(pdf).lines
        /\ selected_proj # All =>
               <<"Programme / Project", selected_proj>> \in Val(pdf).lines

\* Every record of the view the summary cards read has no value in the
\* column `field` of df (so has the empty view).
AllMissing(field) ==
    /\ cards_df # Missing
    /\ \A i \in Val(cards_df) : isna(df_clean[i][field])

\* C11: when every output-performance (budget-performance) value of the
\* filtered view is missing, the mean is missing and is shown as "N/A" on the
\* summary card and in the PDF summary.
C11_MissingMeanShownAsNA ==
    /\ (card # Missing /\ AllMissing("output")) =>
           (isna(Val(card).output.of) /\ Val(card).output.text = "N/A")
    /\ (card # Missing /\ AllMissing("budget")) =>
           (isna(Val(card).budget.of) /\ Val(card).budget.text = "N/A")
    /\ (pdf # Missing /\ AllMissing("output")) =>
           (isna(Val(pdf).output.of) /\ Val(pdf).output.text = "N/A")
    /\ (pdf # Missing /\ AllMissing("budget")) =>
           (isna(Val(pdf).budget.of) /\ Val(pdf).budget.text = "N/A")

\* What graceful coercion makes of a cell of a numeric column, and of a cell
\* of the planned column: a number, or missing.
Parsed(columns, col, cell) ==
    IF col \in columns /\ cell.k = "num" THEN Some(cell.v) ELSE Missing
ParsedPercent(columns, col, cell) ==
    IF col \in columns /\ cell.k \in {"num", "pct"} THEN Some(cell.v) ELSE Missing

\* C14: when the table has its discriminators, no cell content and no absent
\* column stops the load: the pass gets to classification and filtering, a
\* cell that is no number is missing in df, and so is every cell of a column
\* the table does not have, the planned column included.
C14_CoercionNeverHalts ==
    (ran /\ source.readable /\ ~MissingDiscriminator) =>
        /\ error # CleanError
        /\ {"classify", "filters"} \subseteq stages
        /\ DOMAIN df_clean = DOMAIN Rows
        /\ \A i \in DOMAIN Rows :
              /\ df_clean[i].output =
                    Parsed(source.columns, OutputCol(quarter), Rows[i].output)
              /\ df_clean[i].budget =
                    Parsed(source.columns, BudgetCol(quarter), Rows[i].budget)
              /\ df_clean[i].planned =
                    ParsedPercent(source.columns, PlannedCol(quarter),
                                  Rows[i].planned)

\* df holds in a cell what the loaded table had there.
Held(x, cell) ==
    CASE cell.k = "num" -> x = Some(cell.v)
      [] cell.k = "blank" -> isna(x)
      [] OTHER -> FALSE

\* C15: whatever passes have run, every cell of a column of the loaded table
\* holds in df the value it was loaded with.
C15_RawCellsUnchanged ==
    \A i \in DOMAIN df_clean :
        /\ OutputCol(quarter) \in source.columns =>
               Held(df_clean[i].output, Rows[i].output)
        /\ BudgetCol(quarter) \in source.columns =>
               Held(df_clean[i].budget, Rows[i].budget)
        /\ PlannedCol(quarter) \in source.columns =>
               Held(df_clean[i].planned, Rows[i].planned)

\* The colour class of a value on the [0, 1] scale.
ColorFor(v, green, amber) ==
    IF isna(v) THEN ""
    ELSE IF 10 * Val(v) >= green * One THEN "green"
    ELSE IF 10 * Val(v) >= amber * One THEN "amber"
    ELSE "red"

\* C16: in either table view an output-performance or budget-performance
\* cell is green from 0.7, amber from 0.5, red below and uncoloured when
\* missing, and a tracking-score cell likewise with 0.8 and 0.6.
C16_ViewsAgreeOnColour ==
    colors # Missing =>
        \A i \in DOMAIN Val(colors) :
            /\ Val(colors)[i].output = ColorFor(df_clean[i].output, 7, 5)
            /\ Val(colors)[i].budget = ColorFor(df_clean[i].budget, 7, 5)
            /\ Val(colors)[i].tpr = ColorFor(to_numeric(Rows[i].tpr), 8, 6)

\* C17: for a preloaded report whose label names a period, both parts of
\* which are among the quarters and years of the columns, that period is the
\* active one; otherwise the first available quarter and year are.
C17_PeriodFromLabel ==
    (ran /\ source.option = DefaultReports /\ quarter # None) =>
        LET quarters == available_quarters(source.columns)
            years == available_years(source.columns)
            named == LabelMatch(source.label)
        IN IF /\ ~isna(named)
              /\ Val(named)[1] \in quarters
              /\ Val(named)[2] \in years
           THEN quarter = Val(named)[1] /\ year = Val(named)[2]
           ELSE /\ quarter = First(QLabels, quarters)
                /\ year = First(YLabels, years)

\* C18: with the status filter at "All", a selection made from the choices
\* offered ends in no error of the filter sections, and the view the cards
\* read and the view the table shows each hold a record.
C18_OfferedSelectionNonEmpty ==
    (Loaded /\ Rows # <<>> /\ selected_tpr = All) =>
        /\ error \notin {"KeyError: 'Sector'", "NameError: selected_project"}
        /\ cards_df # Missing => Val(cards_df) # {}
        /\ table_df # Missing => Val(table_df) # {}

(***************************************************************************)
(* The report generator (src/.ipynb_checkpoints/app-checkpoint.py).        *)
(* A float is a pair <<n, d>> standing for n / d; d = 0 stands for an      *)
(* infinity, and the empty tuple for NaN / pd.NA.                          *)
(***************************************************************************)
\* Names in lexicographic order.
NameOrder == <<"A1", "A2", "S1", "S2">>
NameRank(name) == CHOOSE i \in DOMAIN NameOrder : NameOrder[i] = name
KeyBefore(a, b) ==
    \/ NameRank(a[1]) < NameRank(b[1])
    \/ a[1] = b[1] /\ NameRank(a[2]) < NameRank(b[2])

\* groupby(['COFOG', 'MDA REVISED']): the keys of the rows with no missing
\* key cell, in sorted order (sort=True, dropna=True are the defaults).
GroupKeys(rows) ==
    {<<rows[i].COFOG, rows[i].MDA>>
     : i \in {j \in DOMAIN rows : rows[j].COFOG # NaN /\ rows[j].MDA # NaN}}
\* SortedKeys in descending order.
SortedKeys_descending(keys) ==
    CHOOSE s \in [1..Cardinality(keys) -> keys] :
        \A i, j \in DOMAIN s : i < j => KeyBefore(s[j], s[i])

SortedKeys(keys) ==
    CHOOSE s \in [1..Cardinality(keys) -> keys] :
        \A i, j \in DOMAIN s : i < j => KeyBefore(s[i], s[j])
GroupRows(rows, key) ==
    {i \in DOMAIN rows : rows[i].COFOG = key[1] /\ rows[i].MDA = key[2]}

\* ReplaceZero that replaces nothing.
ReplaceZero_nothing(total) == Some(total)

\* TOTAL_BUDGET.replace(0, pd.NA)
ReplaceZero(total) == IF total = 0 THEN Missing ELSE Some(total)
\* released / denominator, elementwise
Divide(released, denom) ==
    IF isna(denom) THEN Missing
    ELSE IF Val(denom) = 0
         THEN (IF released = 0 THEN Missing ELSE Rat(1, 0))
    ELSE Rat(released, Val(denom))
\* .fillna(0)
FillZero(x) == IF isna(x) THEN Rat(0, 1) ELSE x
\* * 100
Times100(x) == Rat(100 * x[1], x[2])

\* line 99
AvgBudgetPerf(released, total) ==
    Times100(FillZero(Divide(released, ReplaceZero(total))))

\* lines 92-99
Aggregate(rows) ==
    LET keys == SortedKeys(GroupKeys(rows))
    IN [k \in DOMAIN keys |->
          LET idx == GroupRows(rows, keys[k])
              total == SumCells(rows, idx, "approved")
              released == SumCells(rows, idx, "released")
          IN [COFOG |-> keys[k][1], MDA |-> keys[k][2],
              TOTAL_BUDGET |-> total, BUDGET_RELEASED |-> released,
              AVG_BUDGET_PERF |-> AvgBudgetPerf(released, total)]]

ReportRow(cofog, mda, approved, released) ==
    [COFOG |-> cofog, MDA |-> mda, approved |-> approved, released |-> released]
ApprovedCells == {Missing, Some(0), Some(1000)}
ReleasedCells == {Missing, Some(0), Some(500)}
ReportTables ==
    RowSeqs({ReportRow(c, m, a, r)
             : c \in SectorNames, m \in MdaNames,
               a \in ApprovedCells, r \in ReleasedCells})

\* A dataset is uploaded: the script runs down to the aggregate of line 99.
Upload ==
    /\ rdf = Missing
    /\ \E rows \in ReportTables :
          /\ rdf' = Some(rows)
          /\ mda_df' = Aggregate(rows)
    /\ UNCHANGED <<appVars, report, report_error>>

(***************************************************************************)
(* The export of the full report ("Download Final PDF", lines 122-290).    *)
(* The lines from 187 on are read as the rest of the button's block.  A    *)
(* section is a page or a group of pages of the PDF, or the download       *)
(* button; its `budget` is the budget performance an annexure chart plots. *)
(***************************************************************************)
Section(kind, sector, mda, budget) ==
    [kind |-> kind, sector |-> sector, mda |-> mda, budget |-> budget]
Page(kind) == Section(kind, "", "", Missing)

\* Series.unique(): the distinct values in the order of their first appearance
Unique(seq) ==
    LET firsts == {i \in DOMAIN seq : \A j \in 1..(i - 1) : seq[j] # seq[i]}
    IN [k \in 1..Cardinality(firsts) |->
          seq[CHOOSE i \in firsts : Cardinality({j \in firsts : j < i}) = k - 1]]

RECURSIVE Flatten(_)
Flatten(seqs) ==
    IF seqs = <<>> THEN <<>> ELSE Head(seqs) \o Flatten(Tail(seqs))

\* line 246: (released.sum() / approved.sum()) * 100 on numpy floats, where
\* 0 / 0 is NaN and x / 0 an infinity
avg_budget(released, total) ==
    IF total = 0
    THEN (IF released = 0 THEN Missing ELSE Some(Rat(1, 0)))
    ELSE Some(Rat(100 * released, total))
\* line 250: min(avg_budget, 100), which is its first argument unless 100 is
\* less than it: NaN stays NaN
Min100(x) ==
    IF isna(x) THEN Missing
    ELSE IF Val(x)[2] = 0 \/ Val(x)[1] > 100 * Val(x)[2] THEN Some(Rat(100, 1))
    ELSE x

\* lines 158-184 and 187-226: the pages before the loops
FrontPages ==
    <<Page("cover"), Page("toc"),
      Page("tabular_summary"), Page("graphical_summary"),
      Page("tabular_summary"), Page("graphical_summary")>>

\* lines 229-238: one chart per sector of mda_df, in the order of mda_df
SectorCharts(agg) ==
    LET sectors == Unique([k \in DOMAIN agg |-> agg[k].COFOG])
    IN [k \in DOMAIN sectors |-> Section("sector_chart", sectors[k], "", Missing)]

\* lines 243-290: the body of the inner loop for one (sector, agency)
AnnexureBody(rows, sector, mda, fig_sector) ==
    LET idx == {i \in DOMAIN rows : rows[i].COFOG = sector /\ rows[i].MDA = mda}
        budget == Min100(avg_budget(SumCells(rows, idx, "released"),
                                    SumCells(rows, idx, "approved")))
    IN <<Section("annexure_chart", sector, mda, budget),
         Section("annexure_table", sector, mda, Missing),
         Page("overview"), Page("objectives"), Page("executive_summary"),
         Section("sector_chart", fig_sector, "", Missing),
         Section("annexure_chart", sector, mda, budget),
         Section("annexure_table", sector, mda, Missing),
         Page("download")>>

\* lines 241-290: sectors and, within each, agencies in the order of df
Annexures(rows, fig_sector) ==
    LET sectors == Unique([i \in DOMAIN rows |-> rows[i].COFOG])
    IN Flatten([k \in DOMAIN sectors |->
          LET under == Unique([j \in DOMAIN rows |->
                                 IF rows[j].COFOG = sectors[k]
                                 THEN rows[j].MDA ELSE ""])
              names == SelectSeq(under, LAMBDA m : m # "")
          IN Flatten([l \in DOMAIN names |->
                        AnnexureBody(rows, sectors[k], names[l], fig_sector)])])

\* The index of the n-th section of a kind, 0 if there are fewer.
NthOfKind(sections, kind, n) ==
    LET at == {i \in DOMAIN sections : sections[i].kind = kind}
    IN IF Cardinality(at) < n THEN 0
       ELSE CHOOSE i \in at : Cardinality({j \in at : j <= i}) = n

\* "Download Final PDF" is pressed.  The button is on the page only when the
\* pass got to line 122, which a table without rows does not (line 100).
\* Every turn of the inner loop draws a download button with the same label
\* and no key: a Streamlit build that takes them for the same widget ends the
\* script with DuplicateWidgetID at the second one (`duplicate`).
ExportPdf ==
    /\ rdf # Missing
    /\ Val(rdf) # <<>>
    /\ report = Missing
    /\ \E duplicate \in BOOLEAN :
          LET agg == mda_df
              charts == SectorCharts(agg)
              all == FrontPages \o charts
                     \o Annexures(Val(rdf), charts[Len(charts)].sector)
              second == NthOfKind(all, "download", 2)
          IN IF duplicate /\ second # 0
             THEN /\ report' = Some(SubSeq(all, 1, second - 1))
                  /\ report_error' = "DuplicateWidgetID"
             ELSE /\ report' = Some(all)
                  /\ report_error' = "none"
    /\ UNCHANGED <<appVars, rdf, mda_df>>

ReportNext ==
    \/ Upload
    \/ ExportPdf

\* The report generator alone: the dashboard is not opened.
ReportInit ==
    /\ AppStart({Table(FALSE, {}, <<>>)})
    /\ ReportStart

SpecReport == ReportInit /\ [][ReportNext]_vars

(***************************************************************************)
(* Properties of the report generator.                                     *)
(***************************************************************************)
IsZero(x) == x[1] = 0 /\ x[2] # 0
\* x = n / d, for d # 0
IsRatio(x, n, d) == x[2] # 0 /\ x[1] * d = n * x[2]

\* The rows of the aggregate for a (sector, agency) pair, and the sums of
\* the uploaded records of the pair.
AggregateRows(key) ==
    {k \in DOMAIN mda_df : <<mda_df[k].COFOG, mda_df[k].MDA>> = key}
ApprovedSum(key) == SumCells(Val(rdf), GroupRows(Val(rdf), key), "approved")
ReleasedSum(key) == SumCells(Val(rdf), GroupRows(Val(rdf), key), "released")

RatioOrZero(row, approved, released) ==
    IF approved = 0 THEN IsZero(row.AVG_BUDGET_PERF)
    ELSE IsRatio(row.AVG_BUDGET_PERF, released, approved)

PercentOrZero(row, approved, released) ==
    IF approved = 0 THEN IsZero(row.AVG_BUDGET_PERF)
    ELSE IsRatio(row.AVG_BUDGET_PERF, 100 * released, approved)

AggregateKeys == [k \in DOMAIN mda_df |-> <<mda_df[k].COFOG, mda_df[k].MDA>>]
FirstSeenKeys ==
    Unique([i \in DOMAIN Val(rdf) |-> <<Val(rdf)[i].COFOG, Val(rdf)[i].MDA>>])
FirstSeenSectors == Unique([i \in DOMAIN Val(rdf) |-> Val(rdf)[i].COFOG])

\* The sectors of the per-sector charts of the exported report ("2.0 MDA
\* Chart by Sector"), in the order of their pages.
ReportSectors ==
    LET secs == Val(report)
        first == NthOfKind(secs, "annexure_chart", 1)
        charts == SelectSeq(SubSeq(secs, 1, first - 1),
                            LAMBDA x : x.kind = "sector_chart")
    IN [k \in DOMAIN charts |-> charts[k].sector]

\* C12 as stated: the aggregate rows and the per-sector sections are in the
\* order in which each grouping key is first seen in the source table.
C12_FirstSeenOrder ==
    /\ rdf # Missing => AggregateKeys = FirstSeenKeys
    /\ report # Missing => ReportSectors = FirstSeenSectors

\* C12 as amended: the aggregate rows are in ascending order of the grouping
\* key (sector name, then agency name) and the per-sector sections in
\* ascending order of the sector name, whatever the order of the records.
C12_SortedOrder ==
    /\ rdf # Missing =>
          /\ Range(AggregateKeys) = GroupKeys(Val(rdf))
          /\ \A i, j \in DOMAIN AggregateKeys :
                 i < j => KeyBefore(AggregateKeys[i], AggregateKeys[j])
    /\ report # Missing =>
          /\ Range(ReportSectors) = Range(FirstSeenSectors)
          /\ \A i, j \in DOMAIN ReportSectors :
                 i < j => NameRank(ReportSectors[i]) < NameRank(ReportSectors[j])

\* A report exported from a table whose records name the sectors, and the
\* (sector, agency) pairs, in another order than the sorted one.
C12_Witness ==
    /\ report # Missing
    /\ Len(AggregateKeys) = 2
    /\ AggregateKeys # FirstSeenKeys
    /\ Len(ReportSectors) = 2
    /\ ReportSectors # FirstSeenSectors

\* The (sector, agency) pairs that have a record, sectors outer and agencies
\* inner, each in the order of the uploaded table.
NestedKeys ==
    Flatten([k \in DOMAIN FirstSeenSectors |->
               SelectSeq(FirstSeenKeys, LAMBDA key : key[1] = FirstSeenSectors[k])])

\* The sections of the exported report from the first annexure chart on.
AnnexurePart ==
    LET secs == Val(report)
        first == NthOfKind(secs, "annexure_chart", 1)
    IN IF first = 0 THEN <<>> ELSE SubSeq(secs, first, Len(secs))

\* C13: the annexure part of a full-report export is exactly one chart and
\* one table for each (sector, agency) pair that has a record, sectors outer
\* and agencies inner, with no boilerplate text, sector chart or download
\* emitted inside the loop.
C13_OnePairPerAgency ==
    report # Missing =>
        [i \in DOMAIN AnnexurePart |->
           <<AnnexurePart[i].kind, AnnexurePart[i].sector, AnnexurePart[i].mda>>]
        = Flatten([k \in DOMAIN NestedKeys |->
                     <<<<"annexure_chart", NestedKeys[k][1], NestedKeys[k][2]>>,
                       <<"annexure_table", NestedKeys[k][1], NestedKeys[k][2]>>>>])

\* C19: the budget performance every annexure chart of the full report plots
\* is a number between 0 and 100.
C19_PlottedBudgetInRange ==
    report # Missing =>
        \A i \in DOMAIN Val(report) :
            Val(report)[i].kind = "annexure_chart" =>
                LET x == Val(report)[i].budget
                IN /\ ~isna(x)
                   /\ Val(x)[2] > 0
                   /\ 0 <= Val(x)[1]
                   /\ Val(x)[1] <= 100 * Val(x)[2]

====
